---- MODULE Spec2Model ----
(***************************************************************************)
(* State-machine model of the orangecom scroll experience.                 *)
(*                                                                         *)
(* Units.  Scroll progress is held in percent (0..100, on a grid of 5 so   *)
(* that every threshold of the code, 0.25 0.3 0.4 0.5 0.6 0.7 0.75 0.8     *)
(* 0.95, is a grid point).  Lengths and velocities of the particle systems *)
(* and camera poses are held in thousandths of a scene unit.               *)
(***************************************************************************)
EXTENDS Integers, Sequences, FiniteSets, TLC

\* ---- professional/ScrollAnimations.js ----
VARIABLES
  scrollProgress,      \* this.scrollProgress (percent)
  lastLoggedProgress,  \* this.lastLoggedProgress (percent)
  videoTriggered,      \* this.videoTriggered
  redirectTimers,      \* pending setTimeout(() => redirectToVideoPage(), 100)
  redirectCount,       \* number of calls of redirectToVideoPage so far
  playTimers,          \* pending setTimeout(() => playVideo(), 500)
  playCount,           \* number of calls of playVideo so far
  canvasHidden,        \* canvas-container opacity set to "0"
  tlPlayhead,          \* playhead of this.timeline, as scroll percent (scrub)
  proCamera,           \* camera position and lookAt target set by the timeline
  sceneFx,             \* glowIntensity / fog near / fog far set by updateScene
  proKilled            \* timeline and ScrollTriggers killed by dispose()

proVars == <<scrollProgress, lastLoggedProgress, videoTriggered, redirectTimers,
             redirectCount, playTimers, playCount, canvasHidden, tlPlayhead,
             proCamera, sceneFx, proKilled>>

\* ---- fireflies.js, FireflySystem ----
VARIABLES
  positions,    \* this.positions: particle -> <<x, y, z>> (milli-units)
  velocities,   \* this.velocities: particle -> <<vx, vy, vz>> (milli-units)
  phases,       \* this.phases: particle -> sampled phase
  ffTime,       \* this.time in milliseconds (16 per update)
  ffMaterial,   \* this.material.size / .opacity (thousandths)
  swarmCalls    \* number of direct attractToPoint()/reset() calls so far

ffVars == <<positions, velocities, phases, ffTime, ffMaterial, swarmCalls>>

\* ---- professional/FirefliesSystem.js, FirefliesSystem ----
VARIABLES
  fsPositions,   \* attributes.position.array: particle -> <<x, y, z>> (milli)
  fsVelocities,  \* attributes.velocity.array: particle -> <<vx, vy, vz>> (milli)
  fsPhases,      \* attributes.phase.array: particle -> sampled phase
  fsTime,        \* this.time in milliseconds (deltaTime * speed = 8 per frame)
  fsDisposed,    \* dispose() has released geometry and material
  fsCalls,       \* number of spawnFirefliesAt() calls so far
  fsOutFrames    \* particle -> consecutive update() calls that left it outside the box

fsVars == <<fsPositions, fsVelocities, fsPhases, fsTime, fsDisposed, fsCalls, fsOutFrames>>

\* ---- main_new.js, ForestScrollExperience (with AssetManager loading) ----
VARIABLES
  assetState,       \* asset name -> "pending" | "loaded" | "failed" (loader.load)
  loadedCount,      \* assetManager.loadedCount
  loadedAssets,     \* keys of assetManager.loadedAssets
  loadSettled,      \* "pending" | "resolved" | "rejected": loadAllAssets()
  sceneSetups,      \* number of calls of assetManager.setupScene()
  progressShown,    \* last percentage given to updateLoadingProgress, -1 if none
  isLoaded,         \* this.isLoaded
  isInitialized,    \* this.isInitialized
  errorShown,       \* showError() has run
  systemsCreated,   \* sequence of the systems init() has created, in order
  animationId,      \* this.animationId, 0 for null
  rafPending,       \* id of the pending requestAnimationFrame callback, 0 if none
  updateCount,      \* number of calls of update(deltaTime)
  disposeCalled     \* dispose() has been called

lifeVars == <<assetState, loadedCount, loadedAssets, loadSettled, sceneSetups,
              progressShown, isLoaded, isInitialized, errorShown, systemsCreated,
              animationId, rafPending, updateCount, disposeCalled>>

\* ---- animations.js, ScrollAnimations, and its owner ThreeJSApp ----
VARIABLES
  currentProgress,   \* this.currentProgress (percent)
  animPlayhead,      \* playhead of mainTimeline as scroll percent (scrub: 1)
  animCamera,        \* camera.position / camera.rotation (milli-units)
  modelsLoaded,      \* forestModel, orangeModel and logoModel are non-null
  morphTargets,      \* <<orangeModel.morphTargetInfluences, logoModel...>> present
  scene,             \* visible / scale / rotation.y of forest, orange and logo
  tweens,            \* animations started by showOrange / morphToLogo, in flight
  eventLog,          \* the onStart callbacks that have run, in order
  journey,           \* "fwd": only forward so far; "back": 0 -> 1 then only back
  scrollEvents,      \* number of scroll updates delivered so far
  windowApp,         \* window.app.fireflies is set
  isLoading,         \* ThreeJSApp.isLoading
  appliedSinceFrame, \* runs of handleScrollProgress since the last frame
  resetClean         \* reset() has run and no scroll update has come since

animVars == <<currentProgress, animPlayhead, animCamera, modelsLoaded, morphTargets,
              scene, tweens, eventLog, journey, scrollEvents, windowApp, isLoading,
              appliedSinceFrame, resetClean>>

\* ---- main.js, moveCamera ----
VARIABLES
  scrollTop,      \* document.body.getBoundingClientRect().top at the last call (px)
  mainCamera,     \* camera.position.z / .x (milli-units), camera.rotation.y (mrad)
  moonRotation,   \* number of 0.05 rad increments of moon.rotation.x
  fireflyDrift    \* sum of the scroll drift added to each firefly's position.x (milli)

mainVars == <<scrollTop, mainCamera, moonRotation, fireflyDrift>>

\* ---- loader.js, AssetLoader ----
VARIABLES
  loaderCache,      \* this.loadedAssets: url -> type of the asset stored, "none" if absent
  requests,         \* the loadGLTF / loadTexture calls made so far, one record each
  loaderCalls,      \* number of loader.load / textureLoader.load invocations
  loadedSinceClear, \* urls whose success callback ran since the last clearCache()
  multiAssets,      \* loadMultiple: the assets argument
  multiState,       \* loadMultiple: "idle", or the state of the promise it returned
  completedCount,   \* loadMultiple: let completedCount
  results,          \* loadMultiple: the values of the promises, by index
  multiValue,       \* loadMultiple: the array the returned promise resolved with
  completionOrder,  \* loadMultiple: indexes in the order their loads finished
  progressLog       \* loadMultiple: values passed to onProgress (percent), in order

loaderVars == <<loaderCache, requests, loaderCalls, loadedSinceClear, multiAssets,
                multiState, completedCount, results, multiValue, completionOrder,
                progressLog>>

\* the page that is loaded: "main" (main.js), "pro" (main_new.js and
\* professional/) or "anim" (ThreeJSApp with animations.js and fireflies.js)
VARIABLE app

\* ---- SceneManager.js and PerformanceMonitor, sharing one renderer ----
VARIABLES
  devicePixelRatio, \* window.devicePixelRatio (hundredths)
  pixelRatio,       \* renderer.getPixelRatio() (hundredths)
  maxPixelRatio,    \* settings.maxPixelRatio (hundredths)
  targetFPS,        \* settings.targetFPS
  enableShadows,    \* settings.enableShadows
  shadowMapEnabled, \* renderer.shadowMap.enabled
  shadowMapSize,    \* settings.shadowMapSize
  resizeTimeout     \* SceneManager's resizeTimeout is pending

perfVars == <<devicePixelRatio, pixelRatio, maxPixelRatio, targetFPS, enableShadows,
              shadowMapEnabled, shadowMapSize, resizeTimeout>>

vars == <<proVars, ffVars, fsVars, lifeVars, animVars, mainVars, loaderVars, perfVars, app>>

\* frame conditions: an operation of one component leaves the others alone
ProOnly == UNCHANGED <<ffVars, fsVars, lifeVars, animVars, mainVars, loaderVars, perfVars, app>>
FireflyOnly == UNCHANGED <<proVars, fsVars, lifeVars, animVars, mainVars, loaderVars, perfVars, app>>
FirefliesOnly == UNCHANGED <<proVars, ffVars, lifeVars, animVars, mainVars, loaderVars, perfVars, app>>
\* ForestScrollExperience drives ScrollAnimations and FirefliesSystem
LifeOthers == UNCHANGED <<ffVars, animVars, mainVars, loaderVars, perfVars, app>>
\* ScrollAnimations of animations.js and ThreeJSApp drive FireflySystem
AnimOthers == UNCHANGED <<proVars, fsVars, lifeVars, mainVars, loaderVars, perfVars, app>>
MainOnly == UNCHANGED <<proVars, ffVars, fsVars, lifeVars, animVars, loaderVars, perfVars, app>>
LoaderOnly == UNCHANGED <<proVars, ffVars, fsVars, lifeVars, animVars, mainVars, perfVars, app>>
PerfOnly == UNCHANGED <<proVars, ffVars, fsVars, lifeVars, animVars, mainVars, loaderVars, app>>

Max(a, b) == IF a >= b THEN a ELSE b
Min(a, b) == IF a <= b THEN a ELSE b
Abs(a) == IF a >= 0 THEN a ELSE 0 - a

\* progress values delivered by ScrollTrigger (self.progress), in percent
ProgressValues == {5 * k : k \in 0..20}

(***************************************************************************)
(* professional/ScrollAnimations.js                                        *)
(***************************************************************************)
\* 0.95 in percent
completionThreshold == 95

\* gsap "power2.inOut" (cubic) applied to n/d, in thousandths
Power2InOut(n, d) ==
  IF 2 * n < d THEN (4000 * n * n * n) \div (d * d * d)
  ELSE 1000 - (4000 * (d - n) * (d - n) * (d - n)) \div (d * d * d)

\* gsap "power2.out" (cubic) applied to n/d, in thousandths
Power2Out(n, d) == 1000 - (1000 * (d - n) * (d - n) * (d - n)) \div (d * d * d)

\* linear blend of one component at eased ratio e/1000
Blend(from, to, e) == from + ((to - from) * e) \div 1000

BlendVec(from, to, e) ==
  <<Blend(from[1], to[1], e), Blend(from[2], to[2], e), Blend(from[3], to[3], e)>>

\* The timeline's children end at 0.5 + 1 = 1.5 s (the directional light's
\* position tween), so scroll percent p maps to timeline time 1.5 * p / 100;
\* in units of 1/200 s that is 3 * p.
TimelineTime(p) == 3 * p

\* camera.position as rendered by the three position tweens of animateCamera
\* at playhead p (percent); milli-units.  Tween k starts from the end value of
\* tween k-1 because the timeline renders its children in order.
CameraPosition(p) ==
  LET t == TimelineTime(p)
      p0 == <<0, 3000, 15000>>
      p1 == <<0, 2500, 10000>>
      p2 == <<0, 2000, 3000>>
      p3 == <<0, 1500, -3000>>
  IN  IF t <= 0 THEN p0
      ELSE IF t < 80 THEN BlendVec(p0, p1, Power2InOut(t, 80))
      ELSE IF t = 80 THEN p1
      ELSE IF t < 140 THEN BlendVec(p1, p2, Power2InOut(t - 80, 60))
      ELSE IF t = 140 THEN p2
      ELSE IF t < 200 THEN BlendVec(p2, p3, Power2Out(t - 140, 60))
      ELSE p3

\* target handed to camera.lookAt by the onUpdate of the empty tween
LookAtTarget(progress) ==
  <<0 + ((0 - 0) * progress) \div 100,
    1000 + ((1000 - 1000) * progress) \div 100,
    0 + ((-8000 - 0) * progress) \div 100>>

\* FirefliesSystem.updateIntensity(progress): the glow intensity (permille)
UpdateIntensity(progress) == Max(200, 1000 - progress * 8)

\* updateScene(progress): glow intensity (permille), fog near/far (tenths)
UpdateScene(progress) ==
  [glowIntensity |-> UpdateIntensity(progress),
   fogNear |-> 500 - progress * 3,
   fogFar |-> 2000 - progress * 5]

Floor10(p) == p \div 10

InitPro ==
  /\ scrollProgress = 0
  /\ lastLoggedProgress = 0
  /\ videoTriggered = FALSE
  /\ redirectTimers = 0
  /\ redirectCount = 0
  /\ playTimers = 0
  /\ playCount = 0
  /\ canvasHidden = FALSE
  /\ tlPlayhead = 0
  /\ proCamera = [position |-> <<0, 3000, 15000>>, lookAt |-> <<0, 1000, 0>>]
  /\ sceneFx = [glowIntensity |-> 1000, fogNear |-> 200, fogFar |-> 800]
  /\ proKilled = FALSE


\* redirectToVideoPage as it would be without the setTimeout of playVideo
RedirectWithoutPlay ==
  /\ redirectCount' = redirectCount + 1
  /\ canvasHidden' = TRUE
  /\ UNCHANGED playTimers

\* body of redirectToVideoPage(): hide the canvas, schedule playVideo
RedirectToVideoPage ==
  /\ redirectCount' = redirectCount + 1
  /\ canvasHidden' = TRUE
  /\ playTimers' = playTimers + 1


\* onUpdate as it would be without "this.videoTriggered = true"
OnUpdateNoFlag(p) ==
  /\ ~proKilled
  /\ scrollProgress' = p
  /\ sceneFx' = UpdateScene(p)
  /\ lastLoggedProgress' =
       IF Floor10(p) # Floor10(lastLoggedProgress) THEN p ELSE lastLoggedProgress
  /\ IF p >= completionThreshold /\ ~videoTriggered
       THEN /\ redirectTimers' = redirectTimers + 1
            /\ UNCHANGED videoTriggered
       ELSE UNCHANGED <<videoTriggered, redirectTimers>>
  /\ UNCHANGED <<redirectCount, playTimers, playCount, canvasHidden,
                 tlPlayhead, proCamera, proKilled>>
  /\ ProOnly

\* scrollTrigger.onUpdate(self) with self.progress = p
OnUpdate(p) ==
  /\ ~proKilled
  /\ scrollProgress' = p
  /\ sceneFx' = UpdateScene(p)
  /\ lastLoggedProgress' =
       IF Floor10(p) # Floor10(lastLoggedProgress) THEN p ELSE lastLoggedProgress
  /\ IF p >= completionThreshold /\ ~videoTriggered
       THEN /\ videoTriggered' = TRUE
            /\ redirectTimers' = redirectTimers + 1
       ELSE UNCHANGED <<videoTriggered, redirectTimers>>
  /\ UNCHANGED <<redirectCount, playTimers, playCount, canvasHidden,
                 tlPlayhead, proCamera, proKilled>>
  /\ ProOnly

\* scrollTrigger.onComplete()
OnComplete ==
  /\ ~proKilled
  /\ IF ~videoTriggered
       THEN /\ videoTriggered' = TRUE
            /\ RedirectToVideoPage
       ELSE UNCHANGED <<videoTriggered, redirectCount, canvasHidden, playTimers>>
  /\ UNCHANGED <<scrollProgress, lastLoggedProgress, redirectTimers, playCount,
                 tlPlayhead, proCamera, sceneFx, proKilled>>
  /\ ProOnly

\* the 100 ms timer of onUpdate runs
RedirectTimerFires ==
  /\ redirectTimers > 0
  /\ redirectTimers' = redirectTimers - 1
  /\ RedirectToVideoPage
  /\ UNCHANGED <<scrollProgress, lastLoggedProgress, videoTriggered, playCount,
                 tlPlayhead, proCamera, sceneFx, proKilled>>
  /\ ProOnly

\* the 500 ms timer of redirectToVideoPage runs playVideo()
PlayTimerFires ==
  /\ playTimers > 0
  /\ playTimers' = playTimers - 1
  /\ playCount' = playCount + 1
  /\ UNCHANGED <<scrollProgress, lastLoggedProgress, videoTriggered,
                 redirectTimers, redirectCount, canvasHidden, tlPlayhead,
                 proCamera, sceneFx, proKilled>>
  /\ ProOnly

\* scrub: 1 -- a ticker frame moves the playhead some way towards the scroll
\* position and renders the timeline there (position tweens, then the
\* lookAt callback which reads this.scrollProgress)
TimelineTick(q) ==
  /\ ~proKilled
  /\ q # tlPlayhead
  /\ Min(tlPlayhead, scrollProgress) <= q
  /\ q <= Max(tlPlayhead, scrollProgress)
  /\ tlPlayhead' = q
  /\ proCamera' = [position |-> CameraPosition(q),
                   lookAt |-> LookAtTarget(scrollProgress)]
  /\ UNCHANGED <<scrollProgress, lastLoggedProgress, videoTriggered,
                 redirectTimers, redirectCount, playTimers, playCount,
                 canvasHidden, sceneFx, proKilled>>
  /\ ProOnly

\* ScrollAnimations.dispose(): timeline.kill() and every ScrollTrigger killed;
\* pending timers are not cleared
ScrollAnimationsDispose ==
  /\ proKilled' = TRUE
  /\ UNCHANGED <<scrollProgress, lastLoggedProgress, videoTriggered,
                 redirectTimers, redirectCount, playTimers, playCount,
                 canvasHidden, tlPlayhead, proCamera, sceneFx>>

\* dispose() called on a live ScrollAnimations
ProDispose ==
  /\ ~proKilled
  /\ ScrollAnimationsDispose
  /\ ProOnly

\* arguments tried for direct calls of updateIntensity / updateScene (percent):
\* in range, below 0 and above 1
SetterInputs == {-50, 0, 50, 100, 150}

\* a caller invokes firefliesSystem.updateIntensity(progress)
CallUpdateIntensity ==
  /\ \E p \in SetterInputs :
       sceneFx' = [sceneFx EXCEPT !.glowIntensity = UpdateIntensity(p)]
  /\ UNCHANGED <<scrollProgress, lastLoggedProgress, videoTriggered, redirectTimers,
                 redirectCount, playTimers, playCount, canvasHidden, tlPlayhead,
                 proCamera, proKilled>>
  /\ ProOnly

\* a caller invokes scrollAnimations.updateScene(progress)
CallUpdateScene ==
  /\ \E p \in SetterInputs : sceneFx' = UpdateScene(p)
  /\ UNCHANGED <<scrollProgress, lastLoggedProgress, videoTriggered, redirectTimers,
                 redirectCount, playTimers, playCount, canvasHidden, tlPlayhead,
                 proCamera, proKilled>>
  /\ ProOnly

(***************************************************************************)
(* fireflies.js -- FireflySystem                                           *)
(***************************************************************************)
\* number of particles of the modelled swarm (count)
NumFireflies == 1
\* number of update() calls explored
MaxFrames == 2
\* number of direct attractToPoint()/reset() calls explored
MaxSwarmCalls == 1

Particles == 1..NumFireflies

\* 0.05, the velocity limit of attractToPoint
maxVel == 50
\* wrap bounds of update(): |x|,|z| <= 10, 1 <= y <= 9, re-seed height 8
wrapXZ == 10000
minY == 1000
maxY == 9000
reseedY == 8000

\* sin(a) for a in milliradians, |a| <= 1200, in thousandths (Taylor, a - a^3/6)
SinMilli(a) == a - (a * a * a) \div 6000000

\* sampled values of Math.random() * Math.PI * 2 for the initial phase
PhaseSamples == {"pi/2", "3pi/2"}

\* <<cos(0.7 ph) * 0.002, sin(ph) * 0.003, sin(0.3 ph) * 0.002>> rounded to
\* milli-units.  this.time * 0.5 stays below 0.03 rad within MaxFrames, which
\* changes none of the rounded values.
Floating(ph) ==
  CASE ph = "0" -> <<2, 0, 0>>
    [] ph = "pi/2" -> <<1, 3, 1>>
    [] ph = "3pi/2" -> <<-2, -3, 2>>

\* sampled results of ((Math.random() - 0.5) * 20, Math.random() * 8 + 1, ...)
RandomPositions == {<<9995, 8998, -9995>>, <<-10000, 1002, 9995>>}

\* sampled results of ((Math.random() - 0.5) * 0.02, (.. - 0.5) * 0.01, ...)
RandomVelocities == {<<10, 5, -10>>, <<-10, -5, 10>>}


\* boundary wrapping with the lower test forgotten
WrapXZUpperOnly(v) == IF v > wrapXZ THEN 0 - wrapXZ ELSE v

\* boundary wrapping of x and z
WrapXZ(v) == IF v > wrapXZ THEN 0 - wrapXZ ELSE IF v < 0 - wrapXZ THEN wrapXZ ELSE v

\* "keep fireflies above ground"
WrapY(v) == IF v < minY THEN reseedY ELSE IF v > maxY THEN minY ELSE v

\* one iteration of the loop of update(): integrate, float, wrap
MoveParticle(pos, vel, ph) ==
  LET f == Floating(ph)
  IN  <<WrapXZ(pos[1] + vel[1] + f[1]),
        WrapY(pos[2] + vel[2] + f[2]),
        WrapXZ(pos[3] + vel[3] + f[3])>>


\* velocity limit with Math.max(-maxVel, ..) forgotten
ClampUpperOnly(v) == Min(maxVel, v)

Clamp(v) == Max(0 - maxVel, Min(maxVel, v))

\* one iteration of the loop of attractToPoint(); strength in thousandths
AttractParticle(pos, vel, target, strength) ==
  <<Clamp(vel[1] + ((target[1] - pos[1]) * strength) \div 1000),
    Clamp(vel[2] + ((target[2] - pos[2]) * strength) \div 1000),
    Clamp(vel[3] + ((target[3] - pos[3]) * strength) \div 1000)>>

InitFirefly ==
  /\ positions \in [Particles -> RandomPositions]
  /\ velocities \in [Particles -> RandomVelocities]
  /\ phases \in [Particles -> PhaseSamples]
  /\ ffTime = 0
  /\ ffMaterial = [size |-> 800, opacity |-> 800]
  /\ swarmCalls = 0

\* FireflySystem.update(); dirs[i] is <<>> (keep) or the velocity drawn when
\* Math.random() < 0.005 for particle i
Update(dirs) ==
  /\ ffTime < 16 * MaxFrames
  /\ ffTime' = ffTime + 16
  /\ positions' = [i \in Particles |->
                     MoveParticle(positions[i], velocities[i], phases[i])]
  /\ velocities' = [i \in Particles |->
                      IF dirs[i] = <<>> THEN velocities[i] ELSE dirs[i]]
  /\ ffMaterial' = [ffMaterial EXCEPT
                      !.opacity = 300 + (400 * SinMilli(2 * (ffTime + 16))) \div 1000]
  /\ UNCHANGED phases

\* attractToPoint as it would be if it moved the particles onto the target
AttractSnaps(target, strength) ==
  /\ positions' = [i \in Particles |-> target]
  /\ velocities' = [i \in Particles |->
                      AttractParticle(positions[i], velocities[i], target, strength)]
  /\ UNCHANGED <<phases, ffTime>>

\* FireflySystem.attractToPoint(x, y, z, strength)
AttractToPoint(target, strength) ==
  /\ velocities' = [i \in Particles |->
                      AttractParticle(positions[i], velocities[i], target, strength)]
  /\ UNCHANGED <<positions, phases, ffTime>>

\* FireflySystem.setScrollProgress(progress), progress in percent
SetScrollProgress(progress) ==
  IF progress < 30
    THEN /\ ffMaterial' = [size |-> 800 + (200 * SinMilli(3 * ffTime)) \div 1000,
                           opacity |-> 800 + (200 * SinMilli(2 * ffTime)) \div 1000]
         /\ UNCHANGED <<positions, velocities, phases, ffTime>>
    ELSE IF progress < 60
      THEN /\ AttractToPoint(<<2000, 0, -3000>>, 1)
           /\ ffMaterial' = [size |-> 1000, opacity |-> 900]
      ELSE /\ ffMaterial' = [size |-> 1200 + (300 * SinMilli(4 * ffTime)) \div 1000,
                             opacity |-> 1000]
           /\ UNCHANGED <<positions, velocities, phases, ffTime>>

\* FireflySystem.reset()
Reset(pos, vel) ==
  /\ positions' = pos
  /\ velocities' = vel
  /\ UNCHANGED <<phases, ffTime, ffMaterial>>

\* the swarm at rest, for the specifications that do not run it
IdleFirefly ==
  /\ positions = [i \in Particles |-> <<0, 5000, 0>>]
  /\ velocities = [i \in Particles |-> <<0, 0, 0>>]
  /\ phases = [i \in Particles |-> "0"]
  /\ ffTime = 0
  /\ ffMaterial = [size |-> 800, opacity |-> 800]
  /\ swarmCalls = 0

\* <<>>: Math.random() >= 0.005, the velocity is kept; otherwise the new draw
DirChoices == {<<>>, <<-10, -5, 10>>}

\* a frame calls fireflies.update()
CallUpdate ==
  /\ \E dirs \in [Particles -> DirChoices] : Update(dirs)
  /\ UNCHANGED swarmCalls
  /\ FireflyOnly

\* targets and strengths (thousandths) tried for direct attractToPoint calls
AttractTargets == {<<2000, 0, -3000>>, <<-50000, 50000, 0>>}
AttractStrengths == {1, 1000}

\* a caller invokes attractToPoint(x, y, z, strength)
CallAttractToPoint ==
  /\ swarmCalls < MaxSwarmCalls
  /\ swarmCalls' = swarmCalls + 1
  /\ \E target \in AttractTargets, strength \in AttractStrengths :
       AttractToPoint(target, strength)
  /\ UNCHANGED ffMaterial
  /\ FireflyOnly

\* progress values tried for direct setScrollProgress calls: both sides of
\* its thresholds 0.3 and 0.6, and the two ends
SwarmStops == {0, 25, 30, 55, 60, 100}

\* a caller invokes setScrollProgress(progress)
CallSetScrollProgress ==
  /\ swarmCalls < MaxSwarmCalls
  /\ swarmCalls' = swarmCalls + 1
  /\ \E p \in SwarmStops : SetScrollProgress(p)
  /\ FireflyOnly

\* a caller invokes reset()
CallReset ==
  /\ swarmCalls < MaxSwarmCalls
  /\ swarmCalls' = swarmCalls + 1
  /\ \E pos \in [Particles -> RandomPositions], vel \in [Particles -> RandomVelocities] :
       Reset(pos, vel)
  /\ FireflyOnly

(***************************************************************************)
(* professional/FirefliesSystem.js -- FirefliesSystem                      *)
(***************************************************************************)
\* bounding box tested by update(): |x|,|z| <= 20, 1 <= y <= 16
boxXZ == 20000
boxMinY == 1000
boxMaxY == 16000

\* <<sin(t + ph) * 0.01, cos(0.7 t + ph) * 0.005, sin(0.8 t + ph) * 0.01>> in
\* milli-units; this.time stays below 0.04 within MaxFrames, which moves the
\* rounded values by less than one unit.
FsFloating(ph) ==
  CASE ph = "0" -> <<0, 5, 0>>
    [] ph = "pi/2" -> <<10, 0, 10>>
    [] ph = "3pi/2" -> <<-10, 0, -10>>

\* sampled results of ((Math.random() - 0.5) * 40, Math.random() * 15 + 2, ...)
FsRandomPositions == {<<19995, 16500, -19995>>, <<0, 2000, 0>>}

\* one iteration of the loop of update(): the new position
FsMove(pos, vel, ph) ==
  LET f == FsFloating(ph)
  IN  <<pos[1] + vel[1] + f[1], pos[2] + vel[2] + f[2], pos[3] + vel[3] + f[3]>>

\* one iteration of the loop of update(): the velocity after the bounds test
\* on the new position
FsBounce(newPos, vel) ==
  <<IF Abs(newPos[1]) > boxXZ THEN 0 - vel[1] ELSE vel[1],
    IF newPos[2] < boxMinY \/ newPos[2] > boxMaxY THEN 0 - vel[2] ELSE vel[2],
    IF Abs(newPos[3]) > boxXZ THEN 0 - vel[3] ELSE vel[3]>>

InFsBox(pos) ==
  /\ Abs(pos[1]) <= boxXZ
  /\ boxMinY <= pos[2] /\ pos[2] <= boxMaxY
  /\ Abs(pos[3]) <= boxXZ

\* createFireflyParticles()
InitFireflies ==
  /\ fsPositions \in [Particles -> FsRandomPositions]
  /\ fsVelocities \in [Particles -> RandomVelocities]
  /\ fsPhases \in [Particles -> PhaseSamples]
  /\ fsTime = 0
  /\ fsDisposed = FALSE
  /\ fsCalls = 0
  /\ fsOutFrames = [i \in Particles |-> 0]

IdleFireflies ==
  /\ fsPositions = [i \in Particles |-> <<0, 2000, 0>>]
  /\ fsVelocities = [i \in Particles |-> <<0, 0, 0>>]
  /\ fsPhases = [i \in Particles |-> "0"]
  /\ fsTime = 0
  /\ fsDisposed = FALSE
  /\ fsCalls = 0
  /\ fsOutFrames = [i \in Particles |-> 0]

\* FirefliesSystem.update(deltaTime)
FsUpdate ==
  /\ fsTime' = fsTime + 8
  /\ fsPositions' = [i \in Particles |->
                       FsMove(fsPositions[i], fsVelocities[i], fsPhases[i])]
  /\ fsVelocities' = [i \in Particles |->
                        FsBounce(FsMove(fsPositions[i], fsVelocities[i], fsPhases[i]),
                                 fsVelocities[i])]
  /\ fsOutFrames' = [i \in Particles |->
                       IF InFsBox(FsMove(fsPositions[i], fsVelocities[i], fsPhases[i]))
                         THEN 0 ELSE fsOutFrames[i] + 1]
  /\ UNCHANGED <<fsPhases, fsDisposed>>

\* sampled results of ((Math.random() - 0.5) * 5, (.. - 0.5) * 3, (.. - 0.5) * 5)
SpawnOffsets == {<<-2500, -1500, -2500>>, <<2499, 1499, 2499>>}

\* spawnFirefliesAt with startIndex taken to be count
SpawnFirefliesFromCount(position, count, offs) ==
  LET startIndex == Max(0, count)
  IN  /\ fsPositions' = [i \in Particles |->
                           IF i - 1 >= startIndex
                             THEN <<position[1] + offs[i][1], position[2] + offs[i][2],
                                    position[3] + offs[i][3]>>
                             ELSE fsPositions[i]]
      /\ fsOutFrames' = [i \in Particles |->
                           IF i - 1 >= startIndex THEN 0 ELSE fsOutFrames[i]]
      /\ UNCHANGED <<fsVelocities, fsPhases, fsTime, fsDisposed>>

\* FirefliesSystem.spawnFirefliesAt(position, count); offs[i] is the random
\* offset drawn for particle i.  Indices are 1-based here, 0-based in the code.
SpawnFirefliesAt(position, count, offs) ==
  LET startIndex == Max(0, NumFireflies - count)
  IN  /\ fsPositions' = [i \in Particles |->
                           IF i - 1 >= startIndex
                             THEN <<position[1] + offs[i][1], position[2] + offs[i][2],
                                    position[3] + offs[i][3]>>
                             ELSE fsPositions[i]]
      /\ fsOutFrames' = [i \in Particles |->
                           IF i - 1 >= startIndex THEN 0 ELSE fsOutFrames[i]]
      /\ UNCHANGED <<fsVelocities, fsPhases, fsTime, fsDisposed>>

\* FirefliesSystem.dispose()
FirefliesDispose ==
  /\ fsDisposed' = TRUE
  /\ UNCHANGED <<fsPositions, fsVelocities, fsPhases, fsTime, fsOutFrames>>

\* a frame calls firefliesSystem.update(deltaTime)
CallFsUpdate ==
  /\ fsTime < 8 * MaxFrames
  /\ FsUpdate
  /\ UNCHANGED fsCalls
  /\ FirefliesOnly

\* positions and counts tried for spawnFirefliesAt
SpawnPositions == {<<0, 1000, -8000>>, <<30000, 0, 0>>}
SpawnCounts == {-1, 0, 1, NumFireflies, NumFireflies + 1}

\* a caller invokes spawnFirefliesAt(position, count)
CallSpawnFirefliesAt ==
  /\ fsCalls < MaxSwarmCalls
  /\ fsCalls' = fsCalls + 1
  /\ \E position \in SpawnPositions, count \in SpawnCounts,
        offs \in [Particles -> SpawnOffsets] :
       SpawnFirefliesAt(position, count, offs)
  /\ FirefliesOnly

(***************************************************************************)
(* main_new.js -- ForestScrollExperience, professional/AssetManager.js     *)
(***************************************************************************)
\* keys of assetManager.assetDefinitions
AssetNames == {"grass", "blueFlower"}

\* the state once the constructor has returned: init() has run up to the
\* await of loadAllAssets(), every loader.load() is in flight
InitLife ==
  /\ assetState = [a \in AssetNames |-> "pending"]
  /\ loadedCount = 0
  /\ loadedAssets = {}
  /\ loadSettled = "pending"
  /\ sceneSetups = 0
  /\ progressShown = -1
  /\ isLoaded = FALSE
  /\ isInitialized = FALSE
  /\ errorShown = FALSE
  /\ systemsCreated = <<>>
  /\ animationId = 0
  /\ rafPending = 0
  /\ updateCount = 0
  /\ disposeCalled = FALSE

\* Math.round(progress * 100) for progress = count / totalAssets
RoundPercent(count) == (200 * count + Cardinality(AssetNames)) \div (2 * Cardinality(AssetNames))

\* animate() without its guard
AnimateAlwaysUpdates(initialized) == TRUE

\* animate(): "if (!this.isInitialized) return;" -- whether a call of
\* animate() that finds this.isInitialized = initialized goes on to
\* update(deltaTime) and render()
AnimateUpdates(initialized) == initialized

\* the rest of init() after "await this.loadAssets()": loadAssets sets
\* isLoaded, then initializeSystems, initializeScrollAnimations,
\* startRenderLoop (whose first animate() requests a frame and returns because
\* isInitialized is still false), hideLoadingScreen, isInitialized = true
InitContinues ==
  /\ isLoaded' = TRUE
  /\ systemsCreated' = systemsCreated \o <<"firefliesSystem", "scrollAnimations", "renderLoop">>
  /\ animationId' = animationId + 1
  /\ rafPending' = animationId + 1
  /\ updateCount' = updateCount + (IF AnimateUpdates(isInitialized) THEN 1 ELSE 0)
  /\ isInitialized' = TRUE
  /\ UNCHANGED errorShown

\* Promise.race in place of Promise.all: the first load to finish resolves
PromiseRaceResolves(a) == loadSettled = "pending"

\* Promise.all(loadPromises) resolves with the load of a: it has not settled
\* yet and every other load has succeeded
PromiseAllResolves(a) ==
  loadSettled = "pending" /\ \A b \in AssetNames \ {a} : assetState[b] = "loaded"

\* onLoad callback of loader.load for asset a; when it is the last one,
\* Promise.all resolves, loadAllAssets runs setupScene and init() continues in
\* the same turn of the event loop
LoadSucceeds(a) ==
  /\ assetState[a] = "pending"
  /\ assetState' = [assetState EXCEPT ![a] = "loaded"]
  /\ loadedAssets' = loadedAssets \cup {a}
  /\ loadedCount' = loadedCount + 1
  /\ progressShown' = RoundPercent(loadedCount + 1)
  /\ IF PromiseAllResolves(a)
       THEN /\ loadSettled' = "resolved"
            /\ sceneSetups' = sceneSetups + 1
            /\ InitContinues
       ELSE UNCHANGED <<loadSettled, sceneSetups, isLoaded, isInitialized, errorShown,
                        systemsCreated, animationId, rafPending, updateCount>>
  /\ UNCHANGED disposeCalled
  /\ UNCHANGED <<proVars, fsVars>>
  /\ LifeOthers

\* a failed load as it would be handled if init() swallowed the error and
\* went on (as ThreeJSApp.loadAssets does)
LoadFailsContinues(a) ==
  /\ assetState[a] = "pending"
  /\ assetState' = [assetState EXCEPT ![a] = "failed"]
  /\ IF loadSettled = "pending"
       THEN /\ loadSettled' = "rejected"
            /\ InitContinues
       ELSE UNCHANGED <<loadSettled, errorShown, isLoaded, isInitialized,
                        systemsCreated, animationId, rafPending, updateCount>>
  /\ UNCHANGED <<loadedCount, loadedAssets, sceneSetups, progressShown, disposeCalled>>
  /\ UNCHANGED <<proVars, fsVars>>
  /\ LifeOthers

\* onError callback of loader.load for asset a; the first failure rejects
\* Promise.all, loadAllAssets rethrows and init() shows the error
LoadFails(a) ==
  /\ assetState[a] = "pending"
  /\ assetState' = [assetState EXCEPT ![a] = "failed"]
  /\ IF loadSettled = "pending"
       THEN /\ loadSettled' = "rejected"
            /\ errorShown' = TRUE
       ELSE UNCHANGED <<loadSettled, errorShown>>
  /\ UNCHANGED <<loadedCount, loadedAssets, sceneSetups, progressShown, isLoaded,
                 isInitialized, systemsCreated, animationId, rafPending, updateCount,
                 disposeCalled>>
  /\ UNCHANGED <<proVars, fsVars>>
  /\ LifeOthers

\* the pending requestAnimationFrame callback runs animate()
Frame ==
  /\ rafPending # 0
  /\ updateCount < MaxFrames
  /\ animationId' = rafPending + 1
  /\ rafPending' = rafPending + 1
  /\ IF ~AnimateUpdates(isInitialized)
       THEN UNCHANGED <<updateCount, fsVars>>
       ELSE /\ updateCount' = updateCount + 1
            /\ FsUpdate
            /\ UNCHANGED fsCalls
  /\ UNCHANGED <<assetState, loadedCount, loadedAssets, loadSettled, sceneSetups,
                 progressShown, isLoaded, isInitialized, errorShown, systemsCreated,
                 disposeCalled>>
  /\ UNCHANGED proVars
  /\ LifeOthers

Created(sys) == \E k \in 1..Len(systemsCreated) : systemsCreated[k] = sys

\* ForestScrollExperience.dispose()
Dispose ==
  /\ disposeCalled' = TRUE
  /\ rafPending' = IF animationId # 0 /\ rafPending = animationId THEN 0 ELSE rafPending
  /\ IF Created("scrollAnimations")
       THEN ScrollAnimationsDispose
       ELSE UNCHANGED proVars
  /\ IF Created("firefliesSystem")
       THEN FirefliesDispose /\ UNCHANGED fsCalls
       ELSE UNCHANGED fsVars
  /\ loadedAssets' = {}
  /\ UNCHANGED <<assetState, loadedCount, loadSettled, sceneSetups, progressShown,
                 isLoaded, isInitialized, errorShown, systemsCreated, animationId,
                 updateCount>>
  /\ LifeOthers

(***************************************************************************)
(* animations.js -- ScrollAnimations; vite.config.js -- ThreeJSApp         *)
(***************************************************************************)
\* number of scroll updates explored
MaxScrollEvents == 3

\* camera.position rendered by the four position tweens of mainTimeline at
\* playhead q (percent): the timeline lasts 4 s, tween k covers
\* [25 k, 25 (k + 1)] percent; n counts twentieths of the tween
AnimCameraPosition(q) ==
  LET c0 == <<0, 2000, 8000>>
      c1 == <<1000, 1500, 6000>>
      c2 == <<2000, 500, 2000>>
      c3 == <<2500, 0, 1000>>
      c4 == <<2000, 0, 500>>
      n == (q % 25) \div 5
  IN  IF q <= 0 THEN c0
      ELSE IF q < 25 THEN BlendVec(c0, c1, Power2InOut(n, 5))
      ELSE IF q = 25 THEN c1
      ELSE IF q < 50 THEN BlendVec(c1, c2, Power2InOut(n, 5))
      ELSE IF q = 50 THEN c2
      ELSE IF q < 75 THEN BlendVec(c2, c3, Power2InOut(n, 5))
      ELSE IF q = 75 THEN c3
      ELSE IF q < 100 THEN BlendVec(c3, c4, Power2InOut(n, 5))
      ELSE c4

\* camera.rotation rendered by the 4 s rotation tween, from the rotation
\* lookAt(0, 0, 0) gave the camera at (0, 2, 8): x = -atan(2 / 8)
AnimCameraRotation(q) ==
  BlendVec(<<-245, 0, 0>>, <<-100, 200, 0>>, Power2InOut(q \div 5, 20))

AnimCameraPose(q) ==
  [position |-> AnimCameraPosition(q), rotation |-> AnimCameraRotation(q)]

\* playhead positions (percent) of the tweens that carry an onStart callback
showOrangeStart == 25
morphToLogoStart == 75


\* index (0..3) of the section of mainTimeline that scroll percent p falls in:
\* four camera tweens of 1 s each, placed at 0, 1, 2 and 3 s
PhaseOf(p) == Min(3, p \div 25)

\* onStart called on every render inside the tween instead of on its start
OnStartEveryRender(prev, q, start) == q > start

\* a tween calls onStart when a render takes its own time from 0 to a
\* positive value: the playhead was at or before its start and is now after it
OnStartFires(prev, q, start) == prev <= start /\ q > start

\* the state the callbacks work on
AnimState == [scene |-> scene, tweens |-> tweens, log |-> eventLog]

\* showOrange as it would be if it toggled the orange instead of showing it
ShowOrangeToggles(st) ==
  IF modelsLoaded
    THEN [scene |-> [st.scene EXCEPT !.orangeVisible = ~st.scene.orangeVisible,
                                     !.orangeScale = 0],
          tweens |-> Append(st.tweens, [kind |-> "entrance", stage |-> 0]),
          log |-> Append(st.log, "showOrange")]
    ELSE [st EXCEPT !.log = Append(st.log, "showOrange")]

\* showOrange(): make the orange visible and start the entrance tween, whose
\* from-values (scale 0) are rendered at once
ShowOrange(st) ==
  IF modelsLoaded
    THEN [scene |-> [st.scene EXCEPT !.orangeVisible = TRUE, !.orangeScale = 0],
          tweens |-> Append(st.tweens, [kind |-> "entrance", stage |-> 0]),
          log |-> Append(st.log, "showOrange")]
    ELSE [st EXCEPT !.log = Append(st.log, "showOrange")]

\* morphToLogo as it would be if it tested the orange's morph targets only
MorphToLogoOrangeOnly(st) ==
  IF ~modelsLoaded
    THEN [st EXCEPT !.log = Append(st.log, "morphToLogo")]
    ELSE IF morphTargets[1]
      THEN [st EXCEPT !.tweens = Append(st.tweens, [kind |-> "morph", stage |-> 0]),
                      !.log = Append(st.log, "morphToLogo")]
      ELSE [st EXCEPT !.tweens = Append(st.tweens, [kind |-> "crossfade", stage |-> 0]),
                      !.log = Append(st.log, "morphToLogo")]

\* morphToLogo(): nothing without both models, morphWithTargets() when both
\* expose morphTargetInfluences, crossfadeTransition() otherwise
MorphToLogo(st) ==
  IF ~modelsLoaded
    THEN [st EXCEPT !.log = Append(st.log, "morphToLogo")]
    ELSE IF morphTargets[1] /\ morphTargets[2]
      THEN [st EXCEPT !.tweens = Append(st.tweens, [kind |-> "morph", stage |-> 0]),
                      !.log = Append(st.log, "morphToLogo")]
      ELSE [st EXCEPT !.tweens = Append(st.tweens, [kind |-> "crossfade", stage |-> 0]),
                      !.log = Append(st.log, "morphToLogo")]

\* the callbacks of one render of mainTimeline from playhead prev to q, the
\* children rendered in timeline order
RenderCallbacks(prev, q, st) ==
  LET s1 == IF OnStartFires(prev, q, showOrangeStart) THEN ShowOrange(st) ELSE st
  IN  IF OnStartFires(prev, q, morphToLogoStart) THEN MorphToLogo(s1) ELSE s1

InitialScene ==
  [forestVisible |-> TRUE, orangeVisible |-> FALSE, logoVisible |-> FALSE,
   orangeScale |-> 1000, logoScale |-> 1000, morphInfluence |-> 0,
   orangeRotation |-> 0, logoRotation |-> 0]

\* ThreeJSApp.init() has run to its end and constructed ScrollAnimations
InitAnim ==
  /\ currentProgress = 0
  /\ animPlayhead = 0
  /\ animCamera = [position |-> <<0, 2000, 8000>>, rotation |-> <<-245, 0, 0>>]
  /\ modelsLoaded \in BOOLEAN
  /\ morphTargets \in {<<FALSE, FALSE>>, <<TRUE, FALSE>>, <<TRUE, TRUE>>}
  /\ scene = InitialScene
  /\ tweens = <<>>
  /\ eventLog = <<>>
  /\ journey = "fwd"
  /\ scrollEvents = 0
  /\ windowApp \in BOOLEAN
  /\ isLoading = TRUE
  /\ appliedSinceFrame = 0
  /\ resetClean = FALSE

IdleAnim ==
  /\ currentProgress = 0
  /\ animPlayhead = 0
  /\ animCamera = [position |-> <<0, 2000, 8000>>, rotation |-> <<-245, 0, 0>>]
  /\ modelsLoaded = TRUE
  /\ morphTargets = <<FALSE, FALSE>>
  /\ scene = InitialScene
  /\ tweens = <<>>
  /\ eventLog = <<>>
  /\ journey = "fwd"
  /\ scrollEvents = 0
  /\ windowApp = FALSE
  /\ isLoading = TRUE
  /\ appliedSinceFrame = 0
  /\ resetClean = FALSE

\* updateModelVisibility(progress) (rotation.y in hundredths of a radian)
UpdateModelVisibility(progress, sc) ==
  IF ~modelsLoaded THEN sc
  ELSE [sc EXCEPT
          !.forestVisible = (progress < 80),
          !.orangeRotation = IF sc.orangeVisible THEN @ + 1 ELSE @,
          !.logoRotation = IF sc.logoVisible THEN @ + 2 ELSE @]

\* handleScrollProgress(progress)
HandleScrollProgress(progress) ==
  /\ IF windowApp
       THEN SetScrollProgress(progress)
       ELSE UNCHANGED <<positions, velocities, phases, ffTime, ffMaterial>>
  /\ scene' = UpdateModelVisibility(progress, scene)
  /\ appliedSinceFrame' = appliedSinceFrame + 1

\* how the direction of travel continues when progress p is delivered
NextJourney(p) ==
  IF p = currentProgress THEN journey
  ELSE IF journey = "fwd" THEN
         IF p > currentProgress THEN "fwd"
         ELSE IF currentProgress = 100 /\ animPlayhead = 100 THEN "back" ELSE "other"
  ELSE IF journey = "back" /\ p < currentProgress THEN "back"
  ELSE "other"

\* a scroll update with self.progress = p: the onUpdate of the pin trigger
\* (handleScrollProgress) and the onUpdate of the timeline's trigger
ScrollEvent(p) ==
  /\ scrollEvents < MaxScrollEvents
  /\ scrollEvents' = scrollEvents + 1
  /\ HandleScrollProgress(p)
  /\ currentProgress' = p
  /\ journey' = NextJourney(p)
  /\ resetClean' = FALSE
  /\ UNCHANGED <<animPlayhead, animCamera, modelsLoaded, morphTargets, tweens,
                 eventLog, windowApp, isLoading, swarmCalls>>
  /\ AnimOthers

\* scrub: a ticker frame moves the playhead of mainTimeline some way towards
\* the scroll position and renders it there
AnimTick(q) ==
  /\ q # animPlayhead
  /\ Min(animPlayhead, currentProgress) <= q
  /\ q <= Max(animPlayhead, currentProgress)
  /\ animPlayhead' = q
  /\ animCamera' = AnimCameraPose(q)
  /\ LET st == RenderCallbacks(animPlayhead, q, AnimState)
     IN  /\ scene' = st.scene
         /\ tweens' = st.tweens
         /\ eventLog' = st.log
  /\ UNCHANGED <<currentProgress, modelsLoaded, morphTargets, journey, scrollEvents,
                 windowApp, isLoading, appliedSinceFrame, resetClean>>
  /\ UNCHANGED ffVars
  /\ AnimOthers

RemoveAt(seq, k) == [j \in 1..(Len(seq) - 1) |-> IF j < k THEN seq[j] ELSE seq[j + 1]]

\* the next thing animation k in flight does:
\*   entrance  (showOrange fromTo, 1.5 s): ends with orange scale 1
\*   morph     (morphWithTargets, 2 s): ends with influence 0 at 1
\*   crossfade (timeline): 0.5 s logo shown at scale 0; 1 s orange scale 0;
\*             1.5 s orange hidden; 2 s logo scale 1
TweenAdvance(k) ==
  LET tw == tweens[k]
  IN  /\ k \in 1..Len(tweens)
      /\ IF tw.kind = "entrance"
           THEN /\ scene' = [scene EXCEPT !.orangeScale = 1000]
                /\ tweens' = RemoveAt(tweens, k)
           ELSE IF tw.kind = "morph"
             THEN /\ scene' = [scene EXCEPT !.morphInfluence = 1000]
                  /\ tweens' = RemoveAt(tweens, k)
             ELSE IF tw.stage = 0
               THEN /\ scene' = [scene EXCEPT !.logoVisible = TRUE, !.logoScale = 0]
                    /\ tweens' = [tweens EXCEPT ![k].stage = 1]
               ELSE IF tw.stage = 1
                 THEN /\ scene' = [scene EXCEPT !.orangeScale = 0]
                      /\ tweens' = [tweens EXCEPT ![k].stage = 2]
                 ELSE IF tw.stage = 2
                   THEN /\ scene' = [scene EXCEPT !.orangeVisible = FALSE]
                        /\ tweens' = [tweens EXCEPT ![k].stage = 3]
                   ELSE /\ scene' = [scene EXCEPT !.logoScale = 1000]
                        /\ tweens' = RemoveAt(tweens, k)
      /\ UNCHANGED <<currentProgress, animPlayhead, animCamera, modelsLoaded,
                     morphTargets, eventLog, journey, scrollEvents, windowApp,
                     isLoading, appliedSinceFrame, resetClean>>
      /\ UNCHANGED ffVars
  /\ AnimOthers

\* reset(): the camera back to the stored initial pose, the forest shown, the
\* orange and the logo hidden at scale 1, currentProgress 0. The animations
\* in flight and the playhead of mainTimeline are not touched;
\* ScrollTrigger.refresh() is taken to leave the scene as reset() set it.
AnimReset ==
  /\ animCamera' = [position |-> <<0, 2000, 8000>>, rotation |-> <<-245, 0, 0>>]
  /\ scene' = IF modelsLoaded
                THEN [scene EXCEPT !.forestVisible = TRUE,
                                   !.orangeVisible = FALSE, !.orangeScale = 1000,
                                   !.logoVisible = FALSE, !.logoScale = 1000]
                ELSE scene
  /\ currentProgress' = 0
  /\ resetClean' = TRUE
  /\ UNCHANGED <<animPlayhead, modelsLoaded, morphTargets, tweens, eventLog, journey,
                 scrollEvents, windowApp, isLoading, appliedSinceFrame>>
  /\ UNCHANGED ffVars
  /\ AnimOthers

\* the 500 ms timer of hideLoadingScreen()
HideLoadingDone ==
  /\ isLoading
  /\ isLoading' = FALSE
  /\ UNCHANGED <<currentProgress, animPlayhead, animCamera, modelsLoaded,
                 morphTargets, scene, tweens, eventLog, journey, scrollEvents,
                 windowApp, appliedSinceFrame, resetClean>>
  /\ UNCHANGED ffVars
  /\ AnimOthers

\* ThreeJSApp.animate(): a frame
AnimFrame ==
  /\ IF isLoading
       THEN UNCHANGED <<ffVars, scene>>
       ELSE /\ \E dirs \in [Particles -> DirChoices] : Update(dirs)
            /\ UNCHANGED swarmCalls
            /\ scene' = IF modelsLoaded
                          THEN [scene EXCEPT !.orangeRotation = @ + 1,
                                             !.logoRotation = @ + 2]
                          ELSE scene
  /\ appliedSinceFrame' = 0
  /\ UNCHANGED <<currentProgress, animPlayhead, animCamera, modelsLoaded,
                 morphTargets, tweens, eventLog, journey, scrollEvents, windowApp,
                 isLoading, resetClean>>
  /\ AnimOthers

(***************************************************************************)
(* main.js -- moveCamera                                                   *)
(***************************************************************************)
\* values of getBoundingClientRect().top tried (px, 0 at the top of the page)
ScrollTops == {0, -100, -500, -2000}


\* moveCamera with "+=" on the camera, as it has on the moon and the fireflies
MainCameraPoseAccumulating(t, cam) ==
  [z |-> cam.z + t * (-10), x |-> cam.x + (t * (-2)) \div 10,
   rotY |-> cam.rotY + (t * (-2)) \div 10]

\* the camera pose moveCamera() assigns for top = t:
\* position.z = t * -0.01, position.x = t * -0.0002, rotation.y = t * -0.0002
MainCameraPose(t, cam) ==
  [z |-> t * (-10), x |-> (t * (-2)) \div 10, rotY |-> (t * (-2)) \div 10]

\* the script has run: moveCamera() was called once at the top of the page
InitMain ==
  /\ scrollTop = 0
  /\ mainCamera = [z |-> 0, x |-> 0, rotY |-> 0]
  /\ moonRotation = 1
  /\ fireflyDrift = 0

\* document.body.onscroll = moveCamera, with top = t
MoveCamera(t) ==
  /\ moonRotation <= MaxScrollEvents
  /\ scrollTop' = t
  /\ moonRotation' = moonRotation + 1
  /\ fireflyDrift' = fireflyDrift + t * (-1)
  /\ mainCamera' = MainCameraPose(t, mainCamera)
  /\ MainOnly

(***************************************************************************)
(* loader.js: AssetLoader                                                  *)
(***************************************************************************)
\* the most direct loadGLTF / loadTexture calls, besides one loadMultiple
MaxLoads == 1

Urls == {"a", "b"}

Asset(type, url) == [type |-> type, url |-> url]

\* what a promise that has not resolved holds
NoValue == Asset("none", "none")

\* new AssetLoader(): an empty cache, nothing requested
InitLoader ==
  /\ loaderCache = [u \in Urls |-> "none"]
  /\ requests = <<>>
  /\ loaderCalls = 0
  /\ loadedSinceClear = {}
  /\ multiAssets = <<>>
  /\ multiState = "idle"
  /\ completedCount = 0
  /\ results = <<>>
  /\ multiValue = <<>>
  /\ completionOrder = <<>>
  /\ progressLog = <<>>

\* getCacheSize(): this.loadedAssets.size
GetCacheSize == Cardinality({u \in Urls : loaderCache[u] # "none"})

\* a cache that is never consulted
CacheHitNever(url) == FALSE

\* this.loadedAssets.has(url)
CacheHit(url) == loaderCache[url] # "none"

\* loadGLTF / loadTexture up to the return of the promise: on a cache hit
\* onProgress(1) and resolve(cached asset), otherwise loader.load(url, ...).
\* index is the position in loadMultiple's assets, 0 for a direct call.
LoadRequest(type, url, index) ==
  IF CacheHit(url)
    THEN [type |-> type, url |-> url, index |-> index, state |-> "resolved",
          value |-> Asset(loaderCache[url], url), viaLoader |-> FALSE,
          progress |-> 100, continued |-> FALSE]
    ELSE [type |-> type, url |-> url, index |-> index, state |-> "loading",
          value |-> NoValue, viaLoader |-> TRUE,
          progress |-> -1, continued |-> FALSE]

\* (completedCount + progress) / assets.length, in percent
TotalProgress(count, progress, n) == (count * 100 + progress) \div n

\* loadGLTF(url) called directly
CallLoadGLTF(url) ==
  /\ Cardinality({k \in 1..Len(requests) : requests[k].index = 0}) < MaxLoads
  /\ requests' = Append(requests, LoadRequest("gltf", url, 0))
  /\ loaderCalls' = loaderCalls + (IF CacheHit(url) THEN 0 ELSE 1)
  /\ UNCHANGED <<loaderCache, loadedSinceClear, multiAssets, multiState,
                 completedCount, results, multiValue, completionOrder, progressLog>>
  /\ LoaderOnly

\* loadTexture(url) called directly
CallLoadTexture(url) ==
  /\ Cardinality({k \in 1..Len(requests) : requests[k].index = 0}) < MaxLoads
  /\ requests' = Append(requests, LoadRequest("texture", url, 0))
  /\ loaderCalls' = loaderCalls + (IF CacheHit(url) THEN 0 ELSE 1)
  /\ UNCHANGED <<loaderCache, loadedSinceClear, multiAssets, multiState,
                 completedCount, results, multiValue, completionOrder, progressLog>>
  /\ LoaderOnly

\* the assets arguments tried: none, one, two different urls and the same
\* url twice
MultiInputs ==
  { <<>>,
    <<Asset("gltf", "a")>>,
    <<Asset("texture", "b"), Asset("gltf", "a")>>,
    <<Asset("gltf", "a"), Asset("texture", "a")>> }

\* loadMultiple(assets, onProgress): assets.map runs every callback up to its
\* await, so each load is requested in input order while completedCount is 0;
\* a cached asset reports its progress during the call
CallLoadMultiple(assets) ==
  /\ multiState = "idle"
  /\ LET n == Len(assets)
         cached == {i \in 1..n : CacheHit(assets[i].url)}
     IN  /\ multiAssets' = assets
         /\ requests' = requests \o
                        [i \in 1..n |-> LoadRequest(assets[i].type, assets[i].url, i)]
         /\ loaderCalls' = loaderCalls + (n - Cardinality(cached))
         /\ completedCount' = 0
         /\ results' = [i \in 1..n |-> NoValue]
         /\ multiState' = IF n = 0 THEN "resolved" ELSE "pending"
         /\ progressLog' = [j \in 1..Cardinality(cached) |-> TotalProgress(0, 100, n)]
  /\ UNCHANGED <<loaderCache, loadedSinceClear, multiValue, completionOrder>>
  /\ LoaderOnly

\* the values reach the result array in the order the loads finish
PushResult(values, index, result) ==
  [values EXCEPT ![Len(SelectSeq(values, LAMBDA v : v # NoValue)) + 1] = result]

\* results[index] = result; return result: promise number index holds result,
\* and Promise.all keeps the promises' order
PlaceResult(values, index, result) == [values EXCEPT ![index] = result]

\* progress callback of loader.load for request k, with lengthComputable and
\* half of the file loaded
OnLoaderProgress(k) ==
  /\ requests[k].state = "loading"
  /\ requests[k].progress < 50
  /\ requests' = [requests EXCEPT ![k].progress = 50]
  /\ progressLog' = IF requests[k].index > 0
                      THEN Append(progressLog,
                                  TotalProgress(completedCount, 50, Len(multiAssets)))
                      ELSE progressLog
  /\ UNCHANGED <<loaderCache, loaderCalls, loadedSinceClear, multiAssets, multiState,
                 completedCount, results, multiValue, completionOrder>>
  /\ LoaderOnly

\* success callback of loader.load for request k: store in the cache,
\* onProgress(1), resolve
OnLoaderSuccess(k) ==
  /\ requests[k].state = "loading"
  /\ loaderCache' = [loaderCache EXCEPT ![requests[k].url] = requests[k].type]
  /\ loadedSinceClear' = loadedSinceClear \cup {requests[k].url}
  /\ requests' = [requests EXCEPT ![k].state = "resolved", ![k].progress = 100,
                                  ![k].value = Asset(requests[k].type, requests[k].url)]
  /\ progressLog' = IF requests[k].index > 0
                      THEN Append(progressLog,
                                  TotalProgress(completedCount, 100, Len(multiAssets)))
                      ELSE progressLog
  /\ UNCHANGED <<loaderCalls, multiAssets, multiState, completedCount, results,
                 multiValue, completionOrder>>
  /\ LoaderOnly

\* error callback of loader.load for request k: reject; a rejected load of
\* loadMultiple rejects Promise.all
OnLoaderError(k) ==
  /\ requests[k].state = "loading"
  /\ requests' = [requests EXCEPT ![k].state = "rejected"]
  /\ multiState' = IF requests[k].index > 0 /\ multiState = "pending"
                     THEN "rejected" ELSE multiState
  /\ UNCHANGED <<loaderCache, loaderCalls, loadedSinceClear, multiAssets,
                 completedCount, results, multiValue, completionOrder, progressLog>>
  /\ LoaderOnly

\* loadMultiple's map callback resumes after its await for request k:
\* completedCount++, results[index] = result, return result; when it is the
\* last one Promise.all resolves
MapCallbackResumes(k) ==
  /\ requests[k].index > 0
  /\ requests[k].state = "resolved"
  /\ ~requests[k].continued
  /\ requests' = [requests EXCEPT ![k].continued = TRUE]
  /\ completedCount' = completedCount + 1
  /\ results' = PlaceResult(results, requests[k].index, requests[k].value)
  /\ completionOrder' = Append(completionOrder, requests[k].index)
  /\ IF \A j \in 1..Len(requests) : requests'[j].index > 0 => requests'[j].continued
       THEN multiState' = "resolved" /\ multiValue' = results'
       ELSE UNCHANGED <<multiState, multiValue>>
  /\ UNCHANGED <<loaderCache, loaderCalls, loadedSinceClear, multiAssets, progressLog>>
  /\ LoaderOnly

\* clearCache()
ClearCache ==
  /\ loaderCache' = [u \in Urls |-> "none"]
  /\ loadedSinceClear' = {}
  /\ UNCHANGED <<requests, loaderCalls, multiAssets, multiState, completedCount,
                 results, multiValue, completionOrder, progressLog>>
  /\ LoaderOnly

(***************************************************************************)
(* SceneManager.js (resize) and PerformanceMonitor (quality steps)         *)
(***************************************************************************)
\* values of window.devicePixelRatio tried (hundredths)
DeviceRatios == {100, 150, 200, 300}

\* frame rates measured by updateFPS
FpsSamples == {20, 30, 60, 90}

\* the state once both constructors have run on the same renderer:
\* SceneManager.init, PerformanceMonitor.optimizeRenderer and, on a low-end
\* device, applyLowEndOptimizations
InitPerf ==
  /\ devicePixelRatio \in DeviceRatios
  /\ \E lowEnd \in BOOLEAN :
       IF lowEnd
         THEN /\ maxPixelRatio = 100 /\ pixelRatio = 100
              /\ enableShadows = FALSE /\ shadowMapEnabled = FALSE
              /\ shadowMapSize = 1024 /\ targetFPS = 30
         ELSE /\ maxPixelRatio = 200 /\ pixelRatio = Min(devicePixelRatio, 200)
              /\ enableShadows = TRUE /\ shadowMapEnabled = TRUE
              /\ shadowMapSize = 2048 /\ targetFPS = 60
  /\ resizeTimeout = FALSE

\* a renderer nothing adjusts
IdlePerf ==
  /\ devicePixelRatio = 100 /\ maxPixelRatio = 200 /\ pixelRatio = 100
  /\ enableShadows = TRUE /\ shadowMapEnabled = TRUE
  /\ shadowMapSize = 2048 /\ targetFPS = 60
  /\ resizeTimeout = FALSE

\* reduceQuality(): the first step that applies
ReduceQuality ==
  IF pixelRatio > 100
    THEN /\ pixelRatio' = Max(100, pixelRatio - 25)
         /\ UNCHANGED <<shadowMapEnabled, shadowMapSize>>
    ELSE IF shadowMapEnabled
      THEN /\ shadowMapEnabled' = FALSE
           /\ UNCHANGED <<pixelRatio, shadowMapSize>>
      ELSE IF shadowMapSize > 512
        THEN /\ shadowMapSize' = shadowMapSize \div 2
             /\ UNCHANGED <<pixelRatio, shadowMapEnabled>>
        ELSE UNCHANGED <<pixelRatio, shadowMapEnabled, shadowMapSize>>

\* increaseQuality(): the first step that applies
IncreaseQuality ==
  IF shadowMapSize < 2048
    THEN /\ shadowMapSize' = shadowMapSize * 2
         /\ UNCHANGED <<pixelRatio, shadowMapEnabled>>
    ELSE IF ~shadowMapEnabled /\ enableShadows
      THEN /\ shadowMapEnabled' = TRUE
           /\ UNCHANGED <<pixelRatio, shadowMapSize>>
      ELSE IF pixelRatio < maxPixelRatio
        THEN /\ pixelRatio' = Min(maxPixelRatio, pixelRatio + 25)
             /\ UNCHANGED <<shadowMapEnabled, shadowMapSize>>
        ELSE UNCHANGED <<pixelRatio, shadowMapEnabled, shadowMapSize>>

\* canIncreaseQuality()
CanIncreaseQuality ==
  shadowMapSize < 2048 \/ ~shadowMapEnabled \/ pixelRatio < maxPixelRatio

\* updateFPS() at the end of a one-second window with fps measured, and its
\* autoAdjustQuality(): below 0.8 of the target reduce, above 1.2 increase
UpdateFPS(fps) ==
  /\ IF 10 * fps < 8 * targetFPS
       THEN ReduceQuality
       ELSE IF 10 * fps > 12 * targetFPS /\ CanIncreaseQuality
         THEN IncreaseQuality
         ELSE UNCHANGED <<pixelRatio, shadowMapEnabled, shadowMapSize>>
  /\ UNCHANGED <<devicePixelRatio, maxPixelRatio, targetFPS, enableShadows, resizeTimeout>>
  /\ PerfOnly

\* a resize event of the window, which may come with a new device pixel
\* ratio: SceneManager restarts its 100 ms timer; PerformanceMonitor's
\* handleResize sets the size only
WindowResize(ratio) ==
  /\ devicePixelRatio' = ratio
  /\ resizeTimeout' = TRUE
  /\ UNCHANGED <<pixelRatio, maxPixelRatio, targetFPS, enableShadows, shadowMapEnabled,
                 shadowMapSize>>
  /\ PerfOnly

\* SceneManager's resizeHandler, run by the timer
ResizeHandler ==
  /\ resizeTimeout
  /\ resizeTimeout' = FALSE
  /\ pixelRatio' = Min(devicePixelRatio, 200)
  /\ UNCHANGED <<devicePixelRatio, maxPixelRatio, targetFPS, enableShadows,
                 shadowMapEnabled, shadowMapSize>>
  /\ PerfOnly

(***************************************************************************)
(* Specifications                                                          *)
(***************************************************************************)
InitTerminal == InitPro /\ IdleFirefly /\ IdleFireflies /\ InitLife /\ IdleAnim /\ InitMain /\ InitLoader /\ IdlePerf /\ app = "pro"

NextTerminal ==
  \/ \E p \in ProgressValues : OnUpdate(p)
  \/ OnComplete
  \/ RedirectTimerFires
  \/ PlayTimerFires
  \/ \E q \in ProgressValues : TimelineTick(q)
  \/ ProDispose

SpecTerminal == InitTerminal /\ [][NextTerminal]_vars

\* timers scheduled with setTimeout run
FairSpecTerminal ==
  SpecTerminal /\ WF_vars(RedirectTimerFires) /\ WF_vars(PlayTimerFires)

InitFireflySpec == InitFirefly /\ InitPro /\ IdleFireflies /\ InitLife /\ IdleAnim /\ InitMain /\ InitLoader /\ IdlePerf /\ app = "anim"

NextFirefly ==
  \/ CallUpdate
  \/ CallAttractToPoint
  \/ CallSetScrollProgress
  \/ CallReset

SpecFirefly == InitFireflySpec /\ [][NextFirefly]_vars

InitFirefliesSpec == InitFireflies /\ InitPro /\ IdleFirefly /\ InitLife /\ IdleAnim /\ InitMain /\ InitLoader /\ IdlePerf /\ app = "pro"

NextFireflies ==
  \/ CallFsUpdate
  \/ CallSpawnFirefliesAt

SpecFireflies == InitFirefliesSpec /\ [][NextFireflies]_vars

InitLifecycle == InitLife /\ InitFireflies /\ InitPro /\ IdleFirefly /\ IdleAnim /\ InitMain /\ InitLoader /\ IdlePerf /\ app = "pro"

NextLifecycle ==
  \/ \E a \in AssetNames : LoadSucceeds(a)
  \/ \E a \in AssetNames : LoadFails(a)
  \/ Frame
  \/ Dispose

SpecLifecycle == InitLifecycle /\ [][NextLifecycle]_vars

\* the scroll-driven timeline of animations.js without a swarm attached
InitAnimSpec ==
  /\ InitAnim /\ windowApp = FALSE
  /\ IdleFirefly /\ InitPro /\ IdleFireflies /\ InitLife /\ InitMain /\ InitLoader /\ IdlePerf /\ app = "anim"

\* the scroll positions tried for this timeline: its phase boundaries (25, 50,
\* 75), the thresholds of the handlers (30, 60, 80) and the two ends
ScrollStops == {0, 25, 30, 50, 60, 75, 80, 100}

NextAnim ==
  \/ \E p \in ScrollStops : ScrollEvent(p)
  \/ \E q \in ScrollStops : AnimTick(q)
  \/ \E k \in 1..Len(tweens) : TweenAdvance(k)

SpecAnim == InitAnimSpec /\ [][NextAnim]_vars

\* the timeline with reset() called at any moment. After a reset() the
\* playhead is held until the next scroll update, so that what moves the
\* scene then is only what reset() left running.
ResetStops == {0, 50, 100}

InitResetSpec ==
  /\ InitAnim /\ windowApp = FALSE /\ morphTargets = <<FALSE, FALSE>>
  /\ IdleFirefly /\ InitPro /\ IdleFireflies /\ InitLife /\ InitMain /\ InitLoader /\ IdlePerf /\ app = "anim"

NextReset ==
  \/ \E p \in ResetStops : ScrollEvent(p)
  \/ \E q \in ResetStops : ~resetClean /\ AnimTick(q)
  \/ \E k \in 1..Len(tweens) : TweenAdvance(k)
  \/ AnimReset

SpecReset == InitResetSpec /\ [][NextReset]_vars

\* ThreeJSApp running: scroll updates, the frame loop and the swarm
InitFrameLoop ==
  /\ InitAnim /\ modelsLoaded /\ morphTargets = <<FALSE, FALSE>>
  /\ IdleFirefly /\ InitPro /\ IdleFireflies /\ InitLife /\ InitMain /\ InitLoader /\ IdlePerf /\ app = "anim"

\* scroll positions tried with the frame loop: one in each branch of
\* setScrollProgress (below 30, below 60, the rest), 50 and 60 lying in the
\* same section of the timeline
FrameStops == {0, 50, 60, 100}

NextFrameLoop ==
  \/ \E p \in FrameStops : ScrollEvent(p)
  \/ \E q \in FrameStops : AnimTick(q)
  \/ \E k \in 1..Len(tweens) : TweenAdvance(k)
  \/ HideLoadingDone
  \/ AnimFrame

SpecFrameLoop == InitFrameLoop /\ [][NextFrameLoop]_vars

\* the three scroll handlers that move a camera, each on its own page
CameraStops == {0, 40, 70, 100}

InitCamera ==
  /\ app \in {"main", "pro", "anim"}
  /\ InitMain /\ InitLoader /\ IdlePerf /\ InitPro /\ InitAnim /\ windowApp = FALSE
  /\ IdleFirefly /\ IdleFireflies /\ InitLife

NextCamera ==
  \/ app = "main" /\ \E t \in ScrollTops : MoveCamera(t)
  \/ app = "pro" /\ \E p \in CameraStops : OnUpdate(p)
  \/ app = "pro" /\ \E q \in CameraStops : TimelineTick(q)
  \/ app = "pro" /\ OnComplete
  \/ app = "pro" /\ RedirectTimerFires
  \/ app = "pro" /\ PlayTimerFires
  \/ app = "pro" /\ ProDispose
  \/ app = "anim" /\ \E p \in ScrollStops : ScrollEvent(p)
  \/ app = "anim" /\ \E q \in ScrollStops : AnimTick(q)
  \/ app = "anim" /\ \E k \in 1..Len(tweens) : TweenAdvance(k)

SpecCamera == InitCamera /\ [][NextCamera]_vars

\* the public setters and steppers of the two swarms, each on its own page
InitSetters ==
  /\ app \in {"anim", "pro"}
  /\ IF app = "anim" THEN InitFirefly /\ IdleFireflies
                      ELSE IdleFirefly /\ InitFireflies
  /\ InitPro /\ InitLife /\ IdleAnim /\ InitMain /\ InitLoader /\ IdlePerf

NextSetters ==
  \/ app = "anim" /\ CallUpdate
  \/ app = "anim" /\ CallAttractToPoint
  \/ app = "anim" /\ CallSetScrollProgress
  \/ app = "anim" /\ CallReset
  \/ app = "pro" /\ CallFsUpdate
  \/ app = "pro" /\ CallSpawnFirefliesAt
  \/ app = "pro" /\ CallUpdateIntensity
  \/ app = "pro" /\ CallUpdateScene

SpecSetters == InitSetters /\ [][NextSetters]_vars

\* the renderer's quality under resize events and measured frame rates
InitPerfSpec ==
  /\ InitPerf
  /\ InitPro /\ IdleFirefly /\ IdleFireflies /\ InitLife /\ IdleAnim /\ InitMain /\ InitLoader /\ app = "pro"

NextPerf ==
  \/ \E fps \in FpsSamples : UpdateFPS(fps)
  \/ \E ratio \in DeviceRatios : WindowResize(ratio)
  \/ ResizeHandler

SpecPerf == InitPerfSpec /\ [][NextPerf]_vars

\* the asset loader of ThreeJSApp, called in every order
InitLoaderSpec ==
  /\ InitLoader /\ IdlePerf
  /\ InitPro /\ IdleFirefly /\ IdleFireflies /\ InitLife /\ IdleAnim /\ InitMain /\ app = "anim"

NextLoader ==
  \/ \E u \in Urls : CallLoadGLTF(u)
  \/ \E u \in Urls : CallLoadTexture(u)
  \/ \E assets \in MultiInputs : CallLoadMultiple(assets)
  \/ \E k \in 1..Len(requests) : OnLoaderProgress(k)
  \/ \E k \in 1..Len(requests) : OnLoaderSuccess(k)
  \/ \E k \in 1..Len(requests) : OnLoaderError(k)
  \/ \E k \in 1..Len(requests) : MapCallbackResumes(k)
  \/ ClearCache

SpecLoader == InitLoaderSpec /\ [][NextLoader]_vars

(***************************************************************************)
(* Claims                                                                  *)
(***************************************************************************)
\* C1: redirectToVideoPage is invoked at most once per instance, whatever the
\* sequence of progress updates and whatever the order of the onUpdate
\* threshold trigger and the onComplete trigger.
TerminalAtMostOnce == redirectCount + redirectTimers <= 1 /\ redirectCount <= 1

\* progress went back below the threshold after the terminal action ran
TerminalOnceWitness ==
  redirectCount = 1 /\ scrollProgress < completionThreshold /\ videoTriggered

\* C2: once progress >= 0.95 was observed or onComplete fired, redirectToVideoPage
\* and then playVideo are eventually invoked (timers run), playVideo never
\* before redirectToVideoPage.
TerminalEventuallyFires ==
  /\ [](playCount + playTimers <= redirectCount)
  /\ ((scrollProgress >= completionThreshold \/ videoTriggered)
        ~> (redirectCount >= 1 /\ playCount >= 1))

TerminalFiredWitness ==
  scrollProgress >= completionThreshold /\ redirectCount = 1 /\ playCount = 1

\* C3: after construction and after every update() or reset(), every particle
\* of FireflySystem has -10 <= x <= 10, 1 <= y <= 9 and -10 <= z <= 10.
FireflyInBounds ==
  \A i \in Particles :
    /\ 0 - wrapXZ <= positions[i][1] /\ positions[i][1] <= wrapXZ
    /\ minY <= positions[i][2] /\ positions[i][2] <= maxY
    /\ 0 - wrapXZ <= positions[i][3] /\ positions[i][3] <= wrapXZ

\* a particle that moved in +x has been wrapped to x = -10, one that sank
\* below y = 1 has been re-seeded at y = 8
FireflyWrapWitness ==
  /\ ffTime > 0
  /\ \E i \in Particles :
       \/ positions[i][1] = 0 - wrapXZ /\ velocities[i][1] > 0
       \/ positions[i][2] = reseedY /\ velocities[i][2] < 0

FirefliesNeverOutsideTwoFrames ==
  \A i \in Particles : fsOutFrames[i] <= 1

\* C7: after ForestScrollExperience.dispose() no further update(deltaTime) is
\* executed, whatever the interleaving of dispose() with init() and with
\* pending frame callbacks.
NoUpdateAfterDispose == [][disposeCalled => updateCount' = updateCount]_vars

ReverseRestoresVisibility ==
  (journey = "back" /\ currentProgress = 0 /\ animPlayhead = 0 /\ tweens = <<>>) =>
    /\ scene.forestVisible = InitialScene.forestVisible
    /\ scene.orangeVisible = InitialScene.orangeVisible
    /\ scene.logoVisible = InitialScene.logoVisible

\* C6: scroll progress is only buffered when it arrives and applied at most
\* once per rendered frame: handleScrollProgress never runs twice between two
\* frames.
AppliedOncePerFrame == appliedSinceFrame <= 1

\* C10: handling the same progress value twice in succession leaves the camera
\* pose as the first handling left it, for moveCamera (main.js), for the
\* onUpdate/timeline of professional/ScrollAnimations.js and for
\* handleScrollProgress with its timeline (animations.js).
CameraPoseIdempotent ==
  [][/\ (moonRotation' # moonRotation /\ scrollTop' = scrollTop)
          => mainCamera' = mainCamera
     /\ (scrollProgress' = scrollProgress /\ tlPlayhead' = tlPlayhead)
          => proCamera' = proCamera
     /\ (currentProgress' = currentProgress /\ animPlayhead' = animPlayhead)
          => animCamera' = animCamera]_vars

\* moveCamera has handled the same non-zero scroll position twice, and the
\* other two pages have a camera that has moved
CameraIdempotentWitness ==
  \/ app = "main" /\ moonRotation >= 3 /\ scrollTop = -500 /\ mainCamera.z = 5000
  \/ app = "pro" /\ tlPlayhead = 70 /\ proCamera.position[3] = 3000
  \/ app = "anim" /\ animPlayhead = 100 /\ animCamera.position[3] = 500

\* C11: the swarm changes its force model only at boundaries of the camera
\* timeline's sections: two successive scroll updates that fall in the same
\* section leave the swarm in the same mode (material.size = 1.0 is what the
\* attraction branch of setScrollProgress sets, and only that branch).
ForceModelSwitchesAtPhaseBoundaries ==
  [][(/\ windowApp /\ scrollEvents > 0 /\ scrollEvents' = scrollEvents + 1
      /\ PhaseOf(currentProgress') = PhaseOf(currentProgress))
       => ((ffMaterial'.size = 1000) = (ffMaterial.size = 1000))]_vars

\* C12: setScrollProgress and attractToPoint of FireflySystem and
\* updateIntensity of FirefliesSystem leave every particle position unchanged.
SettersLeavePositions ==
  [][/\ (CallAttractToPoint \/ CallSetScrollProgress) => positions' = positions
     /\ CallUpdateIntensity => fsPositions' = fsPositions]_vars

\* an attraction has changed a velocity before any update(): the particles are
\* still where createGeometry put them
SettersWitness ==
  /\ app = "anim" /\ swarmCalls > 0 /\ ffTime = 0
  /\ \E i \in Particles : velocities[i][2] = maxVel /\ positions[i] \in RandomPositions

ProgressClamped ==
  /\ \E p \in 0..100 : sceneFx.glowIntensity = UpdateIntensity(p)
  /\ \/ sceneFx.fogNear = 200 /\ sceneFx.fogFar = 800
     \/ \E p \in 0..100 : /\ sceneFx.fogNear = UpdateScene(p).fogNear
                           /\ sceneFx.fogFar = UpdateScene(p).fogFar

\* C15: the entry actions are idempotent under re-entry: once every animation
\* has finished, a run in which showOrange was invoked several times (and
\* nothing else) ends as one invocation does, orange visible at scale 1 and the
\* logo untouched; a run of showOrange followed by several morphToLogo ends as
\* showOrange followed by one morphToLogo does.
EntryActionsIdempotent ==
  (modelsLoaded /\ tweens = <<>> /\ Len(eventLog) >= 1) =>
    /\ (\A k \in 1..Len(eventLog) : eventLog[k] = "showOrange")
         => /\ scene.orangeVisible /\ scene.orangeScale = 1000
            /\ ~scene.logoVisible /\ scene.logoScale = 1000
    /\ (/\ Len(eventLog) >= 2 /\ eventLog[1] = "showOrange"
        /\ \A k \in 2..Len(eventLog) : eventLog[k] = "morphToLogo")
         => IF morphTargets[1] /\ morphTargets[2]
              THEN /\ scene.orangeVisible /\ scene.orangeScale = 1000
                   /\ scene.morphInfluence = 1000 /\ ~scene.logoVisible
              ELSE /\ scene.logoVisible /\ scene.logoScale = 1000
                   /\ ~scene.orangeVisible /\ scene.orangeScale \in {0, 1000}

\* showOrange has run twice (the playhead went back over 25 percent and
\* forward again) and both entrance animations have finished
ReentryWitness ==
  /\ modelsLoaded /\ tweens = <<>>
  /\ eventLog = <<"showOrange", "showOrange">>

\* C16: morphToLogo starts the morph-target animation exactly when both models
\* expose morphTargetInfluences, the crossfade in every other case where the
\* models exist, and nothing when they are missing; the crossfade makes the
\* logo visible before it hides the orange, and once it has finished the logo
\* is visible and the orange hidden.
MorphPathSelection ==
  /\ [][(eventLog' # eventLog /\ eventLog'[Len(eventLog')] = "morphToLogo") =>
         LET started(kind) ==
               Cardinality({k \in 1..Len(tweens') : tweens'[k].kind = kind})
                 - Cardinality({k \in 1..Len(tweens) : tweens[k].kind = kind})
             both == morphTargets[1] /\ morphTargets[2]
         IN  /\ started("morph") = (IF modelsLoaded /\ both THEN 1 ELSE 0)
             /\ started("crossfade") = (IF modelsLoaded /\ ~both THEN 1 ELSE 0)
             /\ ~modelsLoaded => (tweens' = tweens /\ scene' = scene)]_vars
  /\ [][(scene.orangeVisible /\ ~scene'.orangeVisible) => scene.logoVisible]_vars
  /\ []((/\ modelsLoaded /\ ~(morphTargets[1] /\ morphTargets[2])
         /\ tweens = <<>> /\ Len(eventLog) >= 1
         /\ eventLog[Len(eventLog)] = "morphToLogo")
          => (scene.logoVisible /\ ~scene.orangeVisible))

\* the crossfade has run to its end
CrossfadeDoneWitness ==
  /\ modelsLoaded /\ morphTargets = <<TRUE, FALSE>> /\ tweens = <<>>
  /\ eventLog = <<"showOrange", "morphToLogo">>
  /\ scene.logoVisible /\ ~scene.orangeVisible /\ scene.logoScale = 1000

\* C17: loadAllAssets resolves only after every defined asset has loaded, and
\* does resolve then; setupScene runs exactly once, on that resolution; if any
\* asset fails, loadAllAssets rejects and setupScene never runs.
LoadAllAssetsSettles ==
  /\ loadSettled = "resolved" <=> (\A a \in AssetNames : assetState[a] = "loaded")
  /\ sceneSetups = (IF loadSettled = "resolved" THEN 1 ELSE 0)
  /\ (\E a \in AssetNames : assetState[a] = "failed") => loadSettled = "rejected"
  /\ loadedCount = Cardinality({a \in AssetNames : assetState[a] = "loaded"})

\* every asset has loaded and the scene has been set up
AllLoadedWitness ==
  /\ loadSettled = "resolved" /\ sceneSetups = 1
  /\ loadedCount = Cardinality(AssetNames) /\ progressShown = 100

\* C20: if asset loading fails during init, the error is shown, no system and
\* no render loop is ever created and isInitialized stays false; if it
\* succeeds, init creates the fireflies system, the scroll animations and the
\* render loop in that order and then sets isInitialized.
InitFailureStopsStartup ==
  /\ loadSettled = "rejected"
       => /\ errorShown /\ systemsCreated = <<>> /\ ~isLoaded /\ ~isInitialized
          /\ animationId = 0 /\ rafPending = 0 /\ updateCount = 0
  /\ loadSettled = "pending" => (systemsCreated = <<>> /\ ~isInitialized /\ ~errorShown)
  /\ loadSettled = "resolved"
       => /\ isLoaded /\ isInitialized /\ ~errorShown
          /\ systemsCreated = <<"firefliesSystem", "scrollAnimations", "renderLoop">>

\* one asset loaded, the other failed: init has stopped with the error shown
InitFailedWitness ==
  /\ loadSettled = "rejected" /\ errorShown /\ loadedCount = 1
  /\ \A a \in AssetNames : assetState[a] # "pending"

\* C18: the promise loadMultiple returns resolves with the loaded assets in
\* the order of its input, whatever the order in which the loads finish, and
\* only when every load has resolved; it is rejected exactly when one of its
\* loads has failed.
LoadMultipleKeepsInputOrder ==
  LET batch == {k \in 1..Len(requests) : requests[k].index > 0}
  IN  /\ multiState = "resolved"
           => /\ Len(multiValue) = Len(multiAssets)
              /\ \A i \in 1..Len(multiAssets) :
                   multiValue[i].url = multiAssets[i].url /\ multiValue[i].type # "none"
              /\ \A k \in batch : requests[k].state = "resolved"
      /\ multiState = "rejected" <=> (\E k \in batch : requests[k].state = "rejected")

\* two assets, the second finished first, and the promise has resolved
OutOfOrderWitness ==
  /\ multiState = "resolved"
  /\ completionOrder = <<2, 1>>
  /\ multiAssets[1].url # multiAssets[2].url

\* C19: a call of loadGLTF / loadTexture for a url that has loaded since the
\* last clearCache() resolves at once from the cache, reports progress 1 and
\* does not invoke the loader; a failed load leaves the cache as it was;
\* getCacheSize() is the number of distinct urls loaded since the last
\* clearCache().
CacheServesRepeatedLoads ==
  /\ [](/\ GetCacheSize = Cardinality(loadedSinceClear)
        /\ \A u \in Urls : loaderCache[u] # "none" <=> u \in loadedSinceClear)
  /\ [][LET new == (Len(requests) + 1)..Len(requests')
        IN  /\ \A k \in new :
                 requests'[k].url \in loadedSinceClear
                   => /\ ~requests'[k].viaLoader
                      /\ requests'[k].state = "resolved"
                      /\ requests'[k].progress = 100
                      /\ requests'[k].value.url = requests'[k].url
            /\ loaderCalls' - loaderCalls
                 = Cardinality({k \in new : requests'[k].url \notin loadedSinceClear})
            /\ (\E k \in 1..Len(requests) :
                  requests[k].state = "loading" /\ requests'[k].state = "rejected")
                 => loaderCache' = loaderCache]_vars

\* a url served from the cache, a load that failed, and one url in the cache
CacheHitWitness ==
  /\ \E k \in 1..Len(requests) :
       ~requests[k].viaLoader /\ requests[k].state = "resolved" /\ requests[k].progress = 100
  /\ \E k \in 1..Len(requests) : requests[k].state = "rejected"
  /\ GetCacheSize = 1

\* C21: from a reset() until the next scroll update the scene is in its
\* initial state: the camera at the stored initial pose, the forest visible,
\* the orange and the logo invisible, currentProgress 0.
ResetStateHolds ==
  resetClean
    => /\ animCamera = [position |-> <<0, 2000, 8000>>, rotation |-> <<-245, 0, 0>>]
       /\ currentProgress = 0
       /\ modelsLoaded
            => (scene.forestVisible /\ ~scene.orangeVisible /\ ~scene.logoVisible)

\* C22: update(deltaTime) and render() run only in a call of animate() that
\* finds isInitialized true; the first animate(), which startRenderLoop calls
\* before init() sets the flag, and every state before that have no update.
NoUpdateBeforeInitialized ==
  /\ [](~isInitialized => updateCount = 0)
  /\ [][updateCount' # updateCount => isInitialized]_vars

\* init() has just completed: the first animate() has requested a frame and no
\* update has run
FirstAnimateSkippedWitness ==
  /\ isInitialized /\ animationId = 1 /\ rafPending = 1
  /\ updateCount = 0

\* C23: the renderer's pixel ratio never exceeds settings.maxPixelRatio.
PixelRatioWithinMax == pixelRatio <= maxPixelRatio

\* C24: when the promise of loadMultiple has resolved, the last value its
\* progress callback received is 1.
LastProgressIsComplete ==
  (multiState = "resolved" /\ progressLog # <<>>)
    => progressLog[Len(progressLog)] = 100

\* C25: once dispose() has been called, redirectToVideoPage and playVideo do
\* not run any more.
NoTerminalActionAfterDispose ==
  [][proKilled => (redirectCount' = redirectCount /\ playCount' = playCount)]_vars

====
